---- MODULE Spec2Model ----
(***************************************************************************)
(* Model of scripts/generate_fake_survey.py: a seeded generator of a fake  *)
(* employee-engagement survey table, exported as CSV and XLSX.             *)
(*                                                                         *)
(* Units.  The source works in floating point on decimal literals; the     *)
(* model keeps every quantity as an exact integer multiple of a decimal    *)
(* unit: means and shifts in tenths, weights and probabilities in          *)
(* hundredths, Gaussian samples in thousandths, exponential samples in     *)
(* hundredths.  The Likert target mean alone is kept as the binary64 value *)
(* the source computes, since its exact value is what a claim is about;    *)
(* elsewhere binary floating-point rounding error is not modelled.         *)
(*                                                                         *)
(* Random streams.  `random` and `numpy.random` are two generators, each   *)
(* with a hidden state that every draw advances.  The model keeps one      *)
(* state per generator and run, advanced by a small linear congruential    *)
(* step; only the support of each distribution is modelled, not its shape. *)
(*                                                                         *)
(* Two runs of the script, r \in Runs, follow one another, each with its    *)
(* own process state; what each wrote is kept apart.                       *)
(***************************************************************************)
EXTENDS Integers, Sequences, FiniteSets, TLC

\* ------------------------------------------------------------------ bounds
\* Seeds tried for SEED (the source fixes 42; any value below MaxSeed+1 is tried).
MaxSeed == 299
\* Generator states a process may hold before it is seeded: 0..MaxEntropy.
MaxEntropy == 1
\* Largest standard normal sample, in tenths of a standard deviation.
ZMax == 60
\* Largest unit exponential sample, in tenths.
XMax == 80
\* Number of respondents generated (the source sets 180).
N_RESPONSES == 3

Runs == {1, 2}

\* ------------------------------------------------------------------ config
START_DATE == [year |-> 2025, month |-> 11, day |-> 3, hour |-> 9, minute |-> 0, second |-> 0]

DEPT_WEIGHTS ==
  << <<"Engineering", 26>>, <<"Sales", 18>>, <<"Customer Support", 20>>,
     <<"Operations", 16>>, <<"Finance", 10>>, <<"HR / People", 10>> >>

LOCATIONS == <<"Paris", "Lyon", "Remote">>
LOCATION_WEIGHTS == <<55, 20, 25>>

TENURE_BANDS == <<"0-1y", "1-3y", "3-5y", "5y+">>
TENURE_WEIGHTS == <<22, 36, 24, 18>>

MANAGER_FLAGS == <<"Yes", "No">>
MANAGER_WEIGHTS == <<12, 88>>

LIKERT_TEXT ==
  (1 :> "Strongly disagree") @@ (2 :> "Disagree") @@ (3 :> "Neutral")
  @@ (4 :> "Agree") @@ (5 :> "Strongly agree")

QUESTIONS ==
  << <<"Q01_Strategy", "I understand the company strategy and priorities">>,
     <<"Q02_Leadership_Comms", "Leadership communicates openly and honestly">>,
     <<"Q03_Manager_Support", "My manager supports my development">>,
     <<"Q04_Feedback", "I receive useful feedback regularly">>,
     <<"Q05_Workload", "My workload is manageable">>,
     <<"Q06_Tools", "I have the tools/resources to do my job well">>,
     <<"Q07_Recognition", "I feel recognized for good work">>,
     <<"Q08_Collaboration", "Teams collaborate effectively">>,
     <<"Q09_PsychSafety", "I feel safe to share concerns">>,
     <<"Q10_CareerPath", "I see a clear career path here">>,
     <<"Q11_Stay12Months", "I would still work here in 12 months">>,
     <<"Q12_OverallEngagement", "Overall, I feel engaged at work">> >>

\* the decimal literals, in tenths
BASE_MEAN_BY_Q ==
  ("Q01_Strategy" :> 34) @@ ("Q02_Leadership_Comms" :> 31)
  @@ ("Q03_Manager_Support" :> 35) @@ ("Q04_Feedback" :> 32)
  @@ ("Q05_Workload" :> 29) @@ ("Q06_Tools" :> 38)
  @@ ("Q07_Recognition" :> 31) @@ ("Q08_Collaboration" :> 37)
  @@ ("Q09_PsychSafety" :> 36) @@ ("Q10_CareerPath" :> 28)
  @@ ("Q11_Stay12Months" :> 34) @@ ("Q12_OverallEngagement" :> 33)

\* the decimal literals, in tenths
DEPT_ADJ ==
  ("Engineering" :> (("Q06_Tools" :> 3) @@ ("Q02_Leadership_Comms" :> -1) @@ ("Q10_CareerPath" :> -1)))
  @@ ("Sales" :> (("Q07_Recognition" :> 1) @@ ("Q01_Strategy" :> 1) @@ ("Q05_Workload" :> -1)))
  @@ ("Customer Support" :> (("Q05_Workload" :> -4) @@ ("Q07_Recognition" :> -2) @@ ("Q06_Tools" :> -1)))
  @@ ("Operations" :> (("Q06_Tools" :> -2) @@ ("Q02_Leadership_Comms" :> -1) @@ ("Q05_Workload" :> -2)))
  @@ ("Finance" :> (("Q01_Strategy" :> 1) @@ ("Q08_Collaboration" :> -1)))
  @@ ("HR / People" :> (("Q09_PsychSafety" :> 2) @@ ("Q02_Leadership_Comms" :> 1) @@ ("Q05_Workload" :> -1)))

WORKING_WELL_TEMPLATES ==
  << "Team collaboration is strong and people are helpful.",
     "Good culture and supportive colleagues.",
     "Tools and systems mostly work well for my role.",
     "Manager is approachable and supportive.",
     "Autonomy and trust make it easier to get work done.",
     "Cross-team collaboration has improved recently." >>

IMPROVE_FIRST_TEMPLATES ==
  << "More clarity on priorities and decisions from leadership.",
     "Reduce workload and improve staffing/planning.",
     "Clearer career paths and development opportunities.",
     "More recognition for strong performance.",
     "Improve communication between teams.",
     "Faster decisions and less last-minute changes." >>

\* standard deviations, in hundredths, and the exponential scale, in tenths
LIKERT_SCALE == 85
ENPS_SCALE == 190
EXP_SCALE == 45
\* comment gate probabilities, in hundredths
P_WORKING == 78
P_IMPROVE == 70
P_WORKLOAD == 55
\* constant term of the eNPS mean, in tenths
ENPS_CENTER == 40

\* ------------------------------------------------------------------ python data
\* An empty dict; a dict is a sequence of <<key, value>> pairs in insertion order.
EmptyDict == << >>

Keys(d) == [k \in 1..Len(d) |-> d[k][1]]

Values(d) == [k \in 1..Len(d) |-> d[k][2]]

HasKey(d, key) == \E k \in 1..Len(d) : d[k][1] = key

\* d[key] for a key the dict holds
DictGet(d, key) == d[CHOOSE k \in 1..Len(d) : d[k][1] = key][2]

\* d[key] = value: replaces in place, or appends a new key
DictSet(d, key, value) ==
  IF HasKey(d, key)
  THEN [k \in 1..Len(d) |-> IF d[k][1] = key THEN <<key, value>> ELSE d[k]]
  ELSE Append(d, <<key, value>>)

\* m.get(key, default) on a mapping held as a function
GetOr(m, key, default) == IF key \in DOMAIN m THEN m[key] ELSE default

\* Strings built from numbers are sequences of one-character strings.
DIGITS == <<"0", "1", "2", "3", "4", "5", "6", "7", "8", "9">>

RECURSIVE str(_)
str(n) == IF n < 10 THEN <<DIGITS[n + 1]>> ELSE str(n \div 10) \o <<DIGITS[(n % 10) + 1]>>

RECURSIVE zfill(_, _)
zfill(s, width) == IF Len(s) >= width THEN s ELSE zfill(<<"0">> \o s, width)

\* round(x) in place of int(x): the nearest integer
int_nearest(num, den) == (2 * num + den) \div (2 * den)

\* int(x) for x = num/den, den > 0: truncation toward zero
int(num, den) == IF num >= 0 THEN num \div den ELSE -((-num) \div den)

\* np.rint of x = num/den, den > 0 and even: nearest integer, ties to even
rint(num, den) ==
  LET f == num \div den
      rem == num % den
  IN  IF 2 * rem < den THEN f
      ELSE IF 2 * rem > den THEN f + 1
      ELSE IF f % 2 = 0 THEN f ELSE f + 1

\* clip with the lower bound left out
clip_upper_only(x, lo, hi) == IF x > hi THEN hi ELSE x

clip(x, lo, hi) == IF x < lo THEN lo ELSE IF x > hi THEN hi ELSE x

\* ------------------------------------------------------------------ binary64
\* A Python float is an IEEE 754 binary64.  The model holds one as a sign and a
\* magnitude in units of 2^-56, the magnitude in two limbs hi * 2^30 + lo; every
\* float the Likert means meet is below 8 in magnitude and a multiple of 2^-56.
RECURSIVE Pow2Of(_)
Pow2Of(n) == IF n = 0 THEN 1 ELSE 2 * Pow2Of(n - 1)

POW2 == [n \in 0..30 |-> Pow2Of(n)]

Pow2(n) == POW2[n]

Limb == POW2[30]

RECURSIVE BitLen(_)
BitLen(n) == IF n = 0 THEN 0 ELSE 1 + BitLen(n \div 2)

MagLen(m) == IF m.hi > 0 THEN 30 + BitLen(m.hi) ELSE BitLen(m.lo)

MagLess(a, b) == a.hi < b.hi \/ (a.hi = b.hi /\ a.lo < b.lo)

MagAdd(a, b) ==
  LET l == a.lo + b.lo
  IN  [hi |-> a.hi + b.hi + (l \div Limb), lo |-> l % Limb]

\* a - b for a >= b
MagSub(a, b) ==
  LET l == (a.lo + Limb) - b.lo
  IN  [hi |-> (a.hi - b.hi - 1) + (l \div Limb), lo |-> l % Limb]

\* m rounded at a unit of 2^d units, d >= 0, given the bits `low` under that unit
RoundAt(m, below, d, unit, low) ==
  LET odd == (m.lo \div unit) % 2 = 1
      up == IF d > 0
            THEN 2 * low > unit \/ (2 * low = unit /\ (below > 0 \/ odd))
            ELSE below = 3 \/ (below = 2 /\ odd)
  IN  IF up THEN MagAdd([hi |-> m.hi, lo |-> m.lo - low], [hi |-> 0, lo |-> unit])
      ELSE [hi |-> m.hi, lo |-> m.lo - low]

RoundTo(m, below, d) == RoundAt(m, below, d, Pow2(d), m.lo % Pow2(d))

\* Round to nearest, ties to even, to 53 significant bits.  below tells what the
\* exact value holds under the last unit: 0 nothing, 1 less than half a unit,
\* 2 half a unit, 3 more.
RoundMag(m, below) ==
  IF MagLess(m, [hi |-> POW2[23], lo |-> 0]) THEN RoundTo(m, below, 0)
  ELSE RoundTo(m, below, MagLen(m) - 53)

\* the float of sign neg and magnitude m
Signed(neg, m) == [neg |-> neg, hi |-> m.hi, lo |-> m.lo]

\* x + y
f64_add(x, y) ==
  IF x.neg = y.neg THEN Signed(x.neg, RoundMag(MagAdd(x, y), 0))
  ELSE IF MagLess(x, y) THEN Signed(y.neg, RoundMag(MagSub(y, x), 0))
  ELSE IF MagLess(y, x) THEN Signed(x.neg, RoundMag(MagSub(x, y), 0))
  ELSE [neg |-> FALSE, hi |-> 0, lo |-> 0]

\* x - y
f64_sub(x, y) == f64_add(x, [y EXCEPT !.neg = ~y.neg])

\* Long division by 5 of top * 2^30 + mid * 2^15 + bot, where mid and bot carry the
\* remainders of the step before, rounded to a float's magnitude.
FifthOf(top, mid, bot) ==
  RoundMag([hi |-> top \div 5, lo |-> (mid \div 5) * Pow2(15) + (bot \div 5)],
           IF bot % 5 = 0 THEN 0 ELSE IF 2 * (bot % 5) < 5 THEN 1 ELSE 3)

FifthFromMid(top, mid) == FifthOf(top, mid, (mid % 5) * Pow2(15))

FifthFromTop(top) == FifthFromMid(top, (top % 5) * Pow2(15))

\* The binary64 nearest to tenths / 10, by long division of |tenths| * 2^55 by 5.
NearestFloat(tenths) ==
  Signed(tenths < 0, FifthFromTop((IF tenths < 0 THEN -tenths ELSE tenths) * Pow2(25)))

\* The floats of the decimal literals -6.0, -5.9, ..., 6.0.
LITERALS == [t \in -60..60 |-> NearestFloat(t)]

\* The float a decimal literal of `tenths` tenths denotes.
f64_literal(tenths) == LITERALS[tenths]

\* The tenth nearest to a float below 8 in magnitude.
NearestTenth(x) ==
  LET t == (((x.hi \div 4) * 5) + POW2[22]) \div POW2[23]
  IN  IF x.neg THEN -t ELSE t

\* ------------------------------------------------------------------ datetime
IsLeap(year) == (year % 4 = 0 /\ year % 100 # 0) \/ year % 400 = 0

DaysInMonth(year, month) ==
  IF month = 2 THEN (IF IsLeap(year) THEN 29 ELSE 28)
  ELSE IF month \in {4, 6, 9, 11} THEN 30 ELSE 31

\* the date n >= 0 days after dt
RECURSIVE AddDays(_, _)
AddDays(dt, n) ==
  IF n = 0 THEN dt
  ELSE IF dt.day < DaysInMonth(dt.year, dt.month)
       THEN AddDays([dt EXCEPT !.day = dt.day + 1], n - 1)
  ELSE IF dt.month < 12
       THEN AddDays([dt EXCEPT !.day = 1, !.month = dt.month + 1], n - 1)
  ELSE AddDays([dt EXCEPT !.day = 1, !.month = 1, !.year = dt.year + 1], n - 1)

\* dt + timedelta(minutes=m), m >= 0
timedelta_add(dt, m) ==
  LET total == dt.hour * 60 + dt.minute + m
      day == AddDays(dt, total \div 1440)
  IN  [day EXCEPT !.hour = (total % 1440) \div 60, !.minute = total % 60]

\* t.strftime("%Y-%m-%d %H:%M"): the seconds are dropped
strftime(dt) ==
  zfill(str(dt.year), 4) \o <<"-">> \o zfill(str(dt.month), 2) \o <<"-">>
  \o zfill(str(dt.day), 2) \o <<" ">> \o zfill(str(dt.hour), 2) \o <<":">>
  \o zfill(str(dt.minute), 2)

\* ------------------------------------------------------------------ generators
\* One step of a generator's hidden state.
LcgNext(s) == (25173 * s + 13849) % 65536

RECURSIVE Advance(_, _)
Advance(s, k) == IF k = 0 THEN s ELSE Advance(LcgNext(s), k - 1)

\* The raw output of the state a draw has reached: 0..255.
Output(s) == s \div 256

\* The state random.seed(seed) leaves, and the state np.random.seed(seed) leaves.
PySeedState(seed) == (7919 * seed + 10473) % 65536

NpSeedState(seed) == (31337 * seed + 271) % 65536

\* random.random(): u in [0, 1), as u * 256
random_random(s) == Output(s)

\* u < p for u = u256/256 and p = p100/100
Below(u256, p100) == u256 * 100 < p100 * 256

\* random.choice(seq)
random_choice(seq, s) == seq[(Output(s) % Len(seq)) + 1]

RECURSIVE CumWeight(_, _)
CumWeight(weights, k) == IF k = 0 THEN 0 ELSE CumWeight(weights, k - 1) + weights[k]

\* random.choices(items, weights=weights, k=1)[0]: bisect of u * total in the
\* cumulative weights, capped at the last item
weighted_choice(items, weights, s) ==
  LET n == Len(items)
      total == CumWeight(weights, n)
      hit == {k \in 1..(n - 1) : random_random(s) * total < CumWeight(weights, k) * 256}
  IN  IF hit = {} THEN items[n] ELSE items[CHOOSE k \in hit : \A j \in hit : k <= j]

\* a standard normal sample, in tenths: -ZMax..ZMax
standard_normal(s) == (Output(s) % (2 * ZMax + 1)) - ZMax

\* np.random.normal(loc, scale), in thousandths; loc in tenths, scale in hundredths
np_random_normal(loc, scale, s) == loc * 100 + scale * standard_normal(s)

\* a unit exponential sample, in tenths: 0..XMax
standard_exponential(s) == Output(s) % (XMax + 1)

\* np.random.exponential(scale), in hundredths; scale in tenths
np_random_exponential(scale, s) == scale * standard_exponential(s)

\* ------------------------------------------------------------------ helpers
\* mean is a float; the sample is taken on the decimal grid, from the tenth nearest
\* to the mean
likert_from_mean(mean, s) ==
  clip(rint(np_random_normal(NearestTenth(mean), LIKERT_SCALE, s), 1000), 1, 5)

dept_shift(dept) ==
  GetOr(("Engineering" :> 3) @@ ("Sales" :> 2) @@ ("Customer Support" :> -6)
        @@ ("Operations" :> -3) @@ ("Finance" :> 0) @@ ("HR / People" :> 2), dept, 0)

\* the loc of the eNPS draw with the score taken from 0 instead of 1
enps_loc_from_zero(overall_eng_score, dept) ==
  (overall_eng_score * 25) + dept_shift(dept) + ENPS_CENTER

\* the loc of the eNPS draw, in tenths: base + dept_shift + 4.0
enps_loc(overall_eng_score, dept) ==
  ((overall_eng_score - 1) * 25) + dept_shift(dept) + ENPS_CENTER

generate_enps_from_engagement(overall_eng_score, dept, s) ==
  clip(rint(np_random_normal(enps_loc(overall_eng_score, dept), ENPS_SCALE, s), 1000), 0, 10)

\* the minutes with the sample multiplied by 8 instead of divided
timestamp_minutes_times_eight(i, s) == int(np_random_exponential(EXP_SCALE, s) * i * 8, 100)

\* the whole minutes generate_timestamp adds to START_DATE
timestamp_minutes(i, s) == int(np_random_exponential(EXP_SCALE, s) * i, 800)

generate_timestamp(i, s) == strftime(timedelta_add(START_DATE, timestamp_minutes(i, s)))

\* the identifier without its zero padding
respondent_id_unpadded(i) == <<"R">> \o str(i)

\* f"R{str(i).zfill(4)}"
respondent_id(i) == <<"R">> \o zfill(str(i), 4)

\* mean = BASE_MEAN_BY_Q[q_code]; mean += DEPT_ADJ.get(dept, {}).get(q_code, 0.0)
mean_with_dept(q_code, dept) ==
  f64_add(f64_literal(BASE_MEAN_BY_Q[q_code]),
          f64_literal(GetOr(GetOr(DEPT_ADJ, dept, << >>), q_code, 0)))

\* if tenure == "0-1y" and q_code in (...): mean -= 0.2
mean_with_tenure(mean, q_code, tenure) ==
  IF tenure = "0-1y" /\ q_code \in {"Q01_Strategy", "Q10_CareerPath"}
  THEN f64_sub(mean, f64_literal(2)) ELSE mean

\* if manager == "Yes" and q_code in (...): mean += 0.2
mean_with_manager(mean, q_code, manager) ==
  IF manager = "Yes" /\ q_code \in {"Q01_Strategy", "Q02_Leadership_Comms"}
  THEN f64_add(mean, f64_literal(2)) ELSE mean

\* the mean with the tenure adjustment left out
target_mean_without_tenure(q_code, dept, tenure, manager) ==
  mean_with_manager(mean_with_dept(q_code, dept), q_code, manager)

\* the mean main passes to likert_from_mean for question q_code, a float
target_mean(q_code, dept, tenure, manager) ==
  mean_with_manager(mean_with_tenure(mean_with_dept(q_code, dept), q_code, tenure),
                    q_code, manager)

\* ------------------------------------------------------------------ state
VARIABLES
  SEED,      \* the configured seed, the same for both runs
  pc,        \* pc[r]: where run r stands in main
  pyState,   \* pyState[r]: hidden state of the `random` generator of run r
  npState,   \* npState[r]: hidden state of the `numpy.random` generator of run r
  i,         \* i[r]: the loop index of the respondent generated next
  rows,      \* rows[r]: the list of row dicts
  locals,    \* locals[r]: the loop body's local values, one record per iteration
  df,        \* df[r]: the DataFrame built from rows, as a list holding it once built
  csv,       \* csv[r]: what each completed to_csv call wrote
  xlsx,      \* xlsx[r]: what each completed to_excel call wrote
  stdout,    \* stdout[r]: the lines printed
  failed     \* failed[r]: the export steps of run r that raised

vars == <<SEED, pc, pyState, npState, i, rows, locals, df, csv, xlsx, stdout, failed>>

QCodes == [k \in 1..Len(QUESTIONS) |-> QUESTIONS[k][1]]

QCodeSet == {QCodes[k] : k \in 1..Len(QCodes)}

\* np.random.seed left out: the generator keeps the state the process started with
np_random_seed_skipped(r) == npState

\* random.seed(SEED) in run r: the new value of pyState
random_seed(r) == [pyState EXCEPT ![r] = PySeedState(SEED)]

\* np.random.seed(SEED) in run r: the new value of npState
np_random_seed(r) == [npState EXCEPT ![r] = NpSeedState(SEED)]

\* row[q_code] = LIKERT_TEXT[answers_num[q_code]] for the first k questions
RECURSIVE StoreLikert(_, _, _)
StoreLikert(row, answers_num, k) ==
  IF k = 0 THEN row
  ELSE DictSet(StoreLikert(row, answers_num, k - 1), QCodes[k],
               LIKERT_TEXT[answers_num[QCodes[k]]])

\* the working comment stored only when the gate fires
store_working_comment_if_written(row, fires, s) ==
  IF fires
  THEN DictSet(row, "Open_WhatsWorking", random_choice(WORKING_WELL_TEMPLATES, LcgNext(s)))
  ELSE row

\* the workload override with a text that is no template
store_improve_comment_other_text(row, fires, override, s) ==
  IF fires
  THEN IF override
       THEN DictSet(row, "Open_ImproveFirst", "Reduce workload and improve staffing.")
       ELSE DictSet(row, "Open_ImproveFirst", random_choice(IMPROVE_FIRST_TEMPLATES, LcgNext(s)))
  ELSE DictSet(row, "Open_ImproveFirst", "")

\* the comment gate of Open_WhatsWorking; s is the generator state after the gate
\* draw, and the template choice draws once more
store_working_comment(row, fires, s) ==
  IF fires
  THEN DictSet(row, "Open_WhatsWorking", random_choice(WORKING_WELL_TEMPLATES, LcgNext(s)))
  ELSE DictSet(row, "Open_WhatsWorking", "")

\* the comment gate of Open_ImproveFirst; s is the generator state after the gate
\* draw and the workload draw, if any
store_improve_comment(row, fires, override, s) ==
  IF fires
  THEN IF override
       THEN DictSet(row, "Open_ImproveFirst", "Reduce workload and improve staffing/planning.")
       ELSE DictSet(row, "Open_ImproveFirst", random_choice(IMPROVE_FIRST_TEMPLATES, LcgNext(s)))
  ELSE DictSet(row, "Open_ImproveFirst", "")

\* the position of each question code in QUESTIONS
QPos == [q \in QCodeSet |-> CHOOSE k \in 1..Len(QCodes) : QCodes[k] = q]

\* dept, location, tenure, manager: four draws of `random` from state p0
draw_profile(p0) ==
  LET p1 == LcgNext(p0)
      p2 == LcgNext(p1)
      p3 == LcgNext(p2)
      p4 == LcgNext(p3)
  IN  [ dept |-> weighted_choice(Keys(DEPT_WEIGHTS), Values(DEPT_WEIGHTS), p1),
        location |-> weighted_choice(LOCATIONS, LOCATION_WEIGHTS, p2),
        tenure |-> weighted_choice(TENURE_BANDS, TENURE_WEIGHTS, p3),
        manager |-> weighted_choice(MANAGER_FLAGS, MANAGER_WEIGHTS, p4),
        py |-> p4 ]

\* answers_num[q_code] = likert_from_mean(mean): one draw of numpy.random a question
score_answers(mean, n0) ==
  [ mean |-> mean,
    z |-> [q \in QCodeSet |-> standard_normal(Advance(n0, QPos[q]))],
    answers_num |-> [q \in QCodeSet |-> likert_from_mean(mean[q], Advance(n0, QPos[q]))] ]

\* the loop over QUESTIONS for the profile c
draw_answers(c, n0) ==
  score_answers([q \in QCodeSet |-> target_mean(q, c.dept, c.tenure, c.manager)], n0)

\* overall_eng, enps and the row dict as first built; n1 is the state of
\* numpy.random after the questions' draws
first_row(idx, c, overall_eng, n1) ==
  [ row |-> << <<"RespondentID", respondent_id(idx)>>,
               <<"SubmissionTime", generate_timestamp(idx, LcgNext(n1))>>,
               <<"Department", c.dept>>,
               <<"Location", c.location>>,
               <<"Tenure", c.tenure>>,
               <<"Manager", c.manager>>,
               <<"eNPS_0_10", generate_enps_from_engagement(overall_eng, c.dept, n1)>> >>,
    np |-> LcgNext(n1),
    overall_eng |-> overall_eng,
    enps_loc |-> enps_loc(overall_eng, c.dept),
    enps_z |-> standard_normal(n1),
    enps |-> generate_enps_from_engagement(overall_eng, c.dept, n1),
    e |-> np_random_exponential(EXP_SCALE, LcgNext(n1)),
    minutes |-> timestamp_minutes(idx, LcgNext(n1)) ]

\* the two comment gates on the row, from the state p4 of `random`
draw_comments(row, dept, p4) ==
  LET p5 == LcgNext(p4)
      gate_working == random_random(p5)
      fires_working == Below(gate_working, P_WORKING)
      p6 == IF fires_working THEN LcgNext(p5) ELSE p5
      p7 == LcgNext(p6)
      gate_improve == random_random(p7)
      fires_improve == Below(gate_improve, P_IMPROVE)
      asks_workload == fires_improve /\ dept \in {"Customer Support", "Operations"}
      p8 == IF asks_workload THEN LcgNext(p7) ELSE p7
      override == asks_workload /\ Below(random_random(p8), P_WORKLOAD)
  IN  [ row |-> store_improve_comment(store_working_comment(row, fires_working, p5),
                                      fires_improve, override, p8),
        py |-> IF fires_improve /\ ~override THEN LcgNext(p8) ELSE p8,
        gate_working |-> gate_working, gate_improve |-> gate_improve,
        asks_workload |-> asks_workload, override |-> override ]

\* what an iteration leaves: the row, whether KeyError was raised, the generator
\* states reached and the local values
iteration(idx, c, a, b, m, key_error) ==
  [ row |-> m.row, key_error |-> key_error, py |-> m.py, np |-> b.np,
    locals |-> [ i |-> idx, dept |-> c.dept, tenure |-> c.tenure, manager |-> c.manager,
                 mean |-> a.mean, z |-> a.z, answers_num |-> a.answers_num,
                 overall_eng |-> b.overall_eng, enps_loc |-> b.enps_loc,
                 enps_z |-> b.enps_z, enps |-> b.enps, e |-> b.e, minutes |-> b.minutes,
                 gate_working |-> m.gate_working, gate_improve |-> m.gate_improve,
                 asks_workload |-> m.asks_workload, override |-> m.override ] ]

\* A failed LIKERT_TEXT lookup raises before the comment gates draw: no row, and
\* `random` stays where the profile left it.
label_and_comment(idx, c, a, b) ==
  IF \E q \in QCodeSet : a.answers_num[q] \notin DOMAIN LIKERT_TEXT
  THEN iteration(idx, c, a, b,
                 [ row |-> EmptyDict, py |-> c.py, gate_working |-> 0, gate_improve |-> 0,
                   asks_workload |-> FALSE, override |-> FALSE ], TRUE)
  ELSE iteration(idx, c, a, b,
                 draw_comments(StoreLikert(b.row, a.answers_num, Len(QCodes)), c.dept, c.py),
                 FALSE)

build_row(idx, c, a, n0) ==
  label_and_comment(idx, c, a,
                    first_row(idx, c, a.answers_num["Q12_OverallEngagement"],
                              Advance(n0, Len(QCodes) + 1)))

answer_questions(idx, c, n0) == build_row(idx, c, draw_answers(c, n0), n0)

\* One iteration of main's loop for index idx, from generator states p0 (random)
\* and n0 (numpy.random): the local values, the row, and the states reached.
LoopBody(idx, p0, n0) == answer_questions(idx, draw_profile(p0), n0)

\* ------------------------------------------------------------------ export
\* the keys of the first k dicts, each once, in order of first appearance
RECURSIVE UnionKeys(_, _)
UnionKeys(rs, k) ==
  IF k = 0 THEN << >>
  ELSE LET before == UnionKeys(rs, k - 1)
           seen == {before[j] : j \in 1..Len(before)}
       IN  before \o SelectSeq(Keys(rs[k]), LAMBDA key : key \notin seen)

\* pd.DataFrame(rs) for a list of dicts: the columns are the keys in order of first
\* appearance, and a row that lacks a column holds NaN there
DataFrame(rs) ==
  LET columns == UnionKeys(rs, Len(rs))
  IN  [ columns |-> columns,
        data |-> [k \in 1..Len(rs) |->
                   [c \in 1..Len(columns) |->
                     IF HasKey(rs[k], columns[c]) THEN DictGet(rs[k], columns[c]) ELSE "NaN"]] ]

\* what df.to_csv(out_csv, index=False) writes
to_csv(frame) ==
  [path |-> "data/employee_engagement_raw.csv", header |-> frame.columns, records |-> frame.data]

\* what df.to_excel(writer, sheet_name="Data_Raw", index=False) writes
to_excel(frame) ==
  [path |-> "data/employee_engagement_forms_export.xlsx", sheet |-> "Data_Raw",
   header |-> frame.columns, records |-> frame.data]

\* an exception caught and passed over: main goes on with the next step
swallowed(next_pc) == next_pc

\* Where main goes when a call raises: no handler encloses any call of main, so the
\* exception leaves main and the process ends, whatever step would have come next.
raised(next_pc) == "aborted"

\* ------------------------------------------------------------------ actions
Init ==
  /\ SEED \in 0..MaxSeed
  /\ pc = [r \in Runs |-> "idle"]
  /\ pyState = [r \in Runs |-> 0]
  /\ npState = [r \in Runs |-> 0]
  /\ i = [r \in Runs |-> 0]
  /\ rows = [r \in Runs |-> << >>]
  /\ locals = [r \in Runs |-> << >>]
  /\ df = [r \in Runs |-> << >>]
  /\ csv = [r \in Runs |-> << >>]
  /\ xlsx = [r \in Runs |-> << >>]
  /\ stdout = [r \in Runs |-> << >>]
  /\ failed = [r \in Runs |-> {}]

\* run r has ended, normally or by an exception
Ended(r) == pc[r] \in {"done", "aborted"}

\* The script is started: the imports leave both generators in states the process
\* picks from the system's entropy.  The runs write the same paths, and follow one
\* another.
Launch(r) ==
  /\ pc[r] = "idle"
  /\ \A q \in Runs : q < r => Ended(q)
  /\ \E p \in 0..MaxEntropy, n \in 0..MaxEntropy :
       /\ pyState' = [pyState EXCEPT ![r] = p]
       /\ npState' = [npState EXCEPT ![r] = n]
  /\ pc' = [pc EXCEPT ![r] = "start"]
  /\ UNCHANGED <<SEED, i, rows, locals, df, csv, xlsx, stdout, failed>>

\* main, up to the loop: both generators are seeded and rows is the empty list
Seed(r) ==
  /\ pc[r] = "start"
  /\ pyState' = random_seed(r)
  /\ npState' = np_random_seed(r)
  /\ rows' = [rows EXCEPT ![r] = << >>]
  /\ i' = [i EXCEPT ![r] = 1]
  /\ pc' = [pc EXCEPT ![r] = "loop"]
  /\ UNCHANGED <<SEED, locals, df, csv, xlsx, stdout, failed>>

\* the iteration `body` takes effect: rows.append(row), or KeyError leaves main
EndIteration(r, body) ==
  /\ pyState' = [pyState EXCEPT ![r] = body.py]
  /\ npState' = [npState EXCEPT ![r] = body.np]
  /\ locals' = [locals EXCEPT ![r] = Append(@, body.locals)]
  /\ IF body.key_error
     THEN /\ pc' = [pc EXCEPT ![r] = raised("loop")]
          /\ failed' = [failed EXCEPT ![r] = @ \cup {"KeyError"}]
          /\ UNCHANGED <<i, rows>>
     ELSE /\ rows' = [rows EXCEPT ![r] = Append(@, body.row)]
          /\ i' = [i EXCEPT ![r] = @ + 1]
          /\ UNCHANGED <<pc, failed>>
  /\ UNCHANGED <<SEED, df, csv, xlsx, stdout>>

\* one iteration of the loop; a failed LIKERT_TEXT lookup raises KeyError
GenerateRow(r) ==
  /\ pc[r] = "loop"
  /\ i[r] <= N_RESPONSES
  /\ EndIteration(r, LoopBody(i[r], pyState[r], npState[r]))

\* the loop is exhausted: df = pd.DataFrame(rows)
BuildFrame(r) ==
  /\ pc[r] = "loop"
  /\ i[r] > N_RESPONSES
  /\ df' = [df EXCEPT ![r] = <<DataFrame(rows[r])>>]
  /\ pc' = [pc EXCEPT ![r] = "to_csv"]
  /\ UNCHANGED <<SEED, pyState, npState, i, rows, locals, csv, xlsx, stdout, failed>>

WriteCsv(r) ==
  /\ pc[r] = "to_csv"
  /\ csv' = [csv EXCEPT ![r] = Append(@, to_csv(df[r][1]))]
  /\ pc' = [pc EXCEPT ![r] = "to_excel"]
  /\ UNCHANGED <<SEED, pyState, npState, i, rows, locals, df, xlsx, stdout, failed>>

\* df.to_csv raises (missing directory, permission, full disk)
WriteCsvFails(r) ==
  /\ pc[r] = "to_csv"
  /\ failed' = [failed EXCEPT ![r] = @ \cup {"to_csv"}]
  /\ pc' = [pc EXCEPT ![r] = raised("to_excel")]
  /\ UNCHANGED <<SEED, pyState, npState, i, rows, locals, df, csv, xlsx, stdout>>

WriteXlsx(r) ==
  /\ pc[r] = "to_excel"
  /\ xlsx' = [xlsx EXCEPT ![r] = Append(@, to_excel(df[r][1]))]
  /\ pc' = [pc EXCEPT ![r] = "print"]
  /\ UNCHANGED <<SEED, pyState, npState, i, rows, locals, df, csv, stdout, failed>>

\* pd.ExcelWriter or df.to_excel raises
WriteXlsxFails(r) ==
  /\ pc[r] = "to_excel"
  /\ failed' = [failed EXCEPT ![r] = @ \cup {"to_excel"}]
  /\ pc' = [pc EXCEPT ![r] = raised("print")]
  /\ UNCHANGED <<SEED, pyState, npState, i, rows, locals, df, csv, xlsx, stdout>>

PrintCreated(r) ==
  /\ pc[r] = "print"
  /\ stdout' = [stdout EXCEPT ![r] =
                 Append(@, [ text |-> "Created", csv |-> "data/employee_engagement_raw.csv",
                             xlsx |-> "data/employee_engagement_forms_export.xlsx",
                             rows |-> Len(df[r][1].data), cols |-> Len(df[r][1].columns) ])]
  /\ pc' = [pc EXCEPT ![r] = "done"]
  /\ UNCHANGED <<SEED, pyState, npState, i, rows, locals, df, csv, xlsx, failed>>

Next ==
  \E r \in Runs :
    \/ Launch(r)
    \/ Seed(r)
    \/ GenerateRow(r)
    \/ BuildFrame(r)
    \/ WriteCsv(r)
    \/ WriteCsvFails(r)
    \/ WriteXlsx(r)
    \/ WriteXlsxFails(r)
    \/ PrintCreated(r)

Spec == Init /\ [][Next]_vars

\* ------------------------------------------------------------------ reading the table
Range(f) == {f[k] : k \in DOMAIN f}

DigitValue(c) == CHOOSE d \in 0..9 : DIGITS[d + 1] = c

IsDigits(chars) == \A k \in 1..Len(chars) : chars[k] \in Range(DIGITS)

RECURSIVE DecimalValue(_)
DecimalValue(chars) ==
  IF chars = << >> THEN 0
  ELSE 10 * DecimalValue(SubSeq(chars, 1, Len(chars) - 1)) + DigitValue(chars[Len(chars)])

\* a < b for two digit strings of the same length, character by character
DigitsLess(a, b) ==
  \E k \in 1..Len(a) :
    /\ \A j \in 1..(k - 1) : a[j] = b[j]
    /\ DigitValue(a[k]) < DigitValue(b[k])

\* the integer a Likert label stands for
LikertValue(label) == CHOOSE n \in DOMAIN LIKERT_TEXT : LIKERT_TEXT[n] = label

\* the minutes between START_DATE and a "YYYY-MM-DD HH:MM" stamp of the same month
StampMinutes(stamp) ==
  (DecimalValue(SubSeq(stamp, 9, 10)) - START_DATE.day) * 1440
  + (DecimalValue(SubSeq(stamp, 12, 13)) - START_DATE.hour) * 60
  + (DecimalValue(SubSeq(stamp, 15, 16)) - START_DATE.minute)

\* the iterations of run r that appended a row
Appended(r) == 1..Len(rows[r])

\* run r has left the generation loop
PastLoop(r) == df[r] # << >>

\* ------------------------------------------------------------------ claims

\* C1: every Likert score of every respondent is an integer in 1..5, so the
\* LIKERT_TEXT lookup never raises and every exported label is one of the five
\* Likert labels; every eNPS is an integer in 0..10.
C1_ScoresInRange ==
  \A r \in Runs :
    /\ "KeyError" \notin failed[r]
    /\ \A k \in 1..Len(locals[r]) :
         /\ \A q \in QCodeSet : locals[r][k].answers_num[q] \in 1..5
         /\ locals[r][k].enps \in 0..10
    /\ \A k \in Appended(r) :
         /\ \A q \in QCodeSet : DictGet(rows[r][k], q) \in Range(LIKERT_TEXT)
         /\ DictGet(rows[r][k], "eNPS_0_10") \in 0..10

\* C1 witness: one run holds a Likert sample that rounds below 1 and is exported as
\* 1, one that rounds above 5 and is exported as 5, and eNPS samples that round
\* below 0 and above 10 and are exported as 0 and 10.
C1_Witness ==
  \E r \in Runs :
    /\ \E k \in Appended(r) : \E q \in QCodeSet :
         /\ NearestTenth(locals[r][k].mean[q]) * 100 + 85 * locals[r][k].z[q] < -500
         /\ DictGet(rows[r][k], q) = "Strongly disagree"
    /\ \E k \in Appended(r) : \E q \in QCodeSet :
         /\ NearestTenth(locals[r][k].mean[q]) * 100 + 85 * locals[r][k].z[q] > 6500
         /\ DictGet(rows[r][k], q) = "Strongly agree"
    /\ \E k \in Appended(r) :
         /\ locals[r][k].enps_loc * 100 + 190 * locals[r][k].enps_z < -1500
         /\ DictGet(rows[r][k], "eNPS_0_10") = 0
    /\ \E k \in Appended(r) :
         /\ locals[r][k].enps_loc * 100 + 190 * locals[r][k].enps_z > 11500
         /\ DictGet(rows[r][k], "eNPS_0_10") = 10

\* C2: past the loop the table holds exactly N_RESPONSES rows; the k-th row's
\* RespondentID is "R" followed by four digits that read k, so the identifiers are
\* pairwise different and strictly increasing in generation order.
C2_RespondentIds ==
  \A r \in Runs :
    /\ Len(rows[r]) <= N_RESPONSES
    /\ PastLoop(r) => Len(rows[r]) = N_RESPONSES
    /\ \A k \in Appended(r) :
         LET id == DictGet(rows[r][k], "RespondentID")
         IN  /\ Len(id) = 5
             /\ id[1] = "R"
             /\ IsDigits(SubSeq(id, 2, 5))
             /\ DecimalValue(SubSeq(id, 2, 5)) = k
    /\ \A j, k \in Appended(r) :
         j < k =>
           /\ DictGet(rows[r][j], "RespondentID") # DictGet(rows[r][k], "RespondentID")
           /\ DigitsLess(SubSeq(DictGet(rows[r][j], "RespondentID"), 2, 5),
                         SubSeq(DictGet(rows[r][k], "RespondentID"), 2, 5))

\* C2 witness: a run has left the loop with all its rows, at least two of them.
C2_Witness ==
  \E r \in Runs :
    /\ pc[r] = "done"
    /\ Len(rows[r]) = N_RESPONSES
    /\ N_RESPONSES >= 2
    /\ DictGet(rows[r][N_RESPONSES], "RespondentID") = <<"R">> \o zfill(str(N_RESPONSES), 4)

ExpectedColumns ==
  << "RespondentID", "SubmissionTime", "Department", "Location", "Tenure", "Manager",
     "eNPS_0_10",
     "Q01_Strategy", "Q02_Leadership_Comms", "Q03_Manager_Support", "Q04_Feedback",
     "Q05_Workload", "Q06_Tools", "Q07_Recognition", "Q08_Collaboration",
     "Q09_PsychSafety", "Q10_CareerPath", "Q11_Stay12Months", "Q12_OverallEngagement",
     "Open_WhatsWorking", "Open_ImproveFirst" >>

\* C3: every row has the same ordered keys, the seven identity columns, the twelve
\* question codes in QUESTIONS order, then the two comment columns, whatever the
\* comment gates did; both comment keys hold a string, the empty string when no
\* comment is written, so the frame built from the rows holds no missing cell there.
C3_RowSchema ==
  \A r \in Runs :
    /\ \A k \in Appended(r) :
         /\ Keys(rows[r][k]) = ExpectedColumns
         /\ DictGet(rows[r][k], "Open_WhatsWorking") \in {""} \cup Range(WORKING_WELL_TEMPLATES)
         /\ DictGet(rows[r][k], "Open_ImproveFirst") \in {""} \cup Range(IMPROVE_FIRST_TEMPLATES)
    /\ PastLoop(r) =>
         /\ df[r][1].columns = ExpectedColumns
         /\ \A k \in 1..Len(df[r][1].data) :
              /\ Len(df[r][1].data[k]) = Len(ExpectedColumns)
              /\ df[r][1].data[k][20] # "NaN"
              /\ df[r][1].data[k][21] # "NaN"

\* C3 witness: one table holds a row with both comments empty, a row with both
\* written and a row with exactly one written.
C3_Witness ==
  \E r \in Runs :
    /\ PastLoop(r)
    /\ \E k \in Appended(r) :
         /\ DictGet(rows[r][k], "Open_WhatsWorking") = ""
         /\ DictGet(rows[r][k], "Open_ImproveFirst") = ""
    /\ \E k \in Appended(r) :
         /\ DictGet(rows[r][k], "Open_WhatsWorking") # ""
         /\ DictGet(rows[r][k], "Open_ImproveFirst") # ""
    /\ \E k \in Appended(r) :
         (DictGet(rows[r][k], "Open_WhatsWorking") = "")
           # (DictGet(rows[r][k], "Open_ImproveFirst") = "")

\* C4: two runs of main under the same seed build the same table: whatever state
\* either process's generators held before seeding, the rows both runs have
\* appended agree field by field, and so do the frames and the files they write.
C4_SameSeedSameTable ==
  /\ \A k \in Appended(1) \cap Appended(2) : rows[1][k] = rows[2][k]
  /\ (PastLoop(1) /\ PastLoop(2)) => df[1] = df[2]
  /\ (csv[1] # << >> /\ csv[2] # << >>) => csv[1] = csv[2]
  /\ (xlsx[1] # << >> /\ xlsx[2] # << >>) => xlsx[1] = xlsx[2]

\* C4 witness: both runs have finished and written both files, each with
\* N_RESPONSES records.
C4_Witness ==
  /\ pc[1] = "done"
  /\ pc[2] = "done"
  /\ Len(csv[1]) = 1
  /\ Len(csv[2]) = 1
  /\ Len(csv[1][1].records) = N_RESPONSES
  /\ Len(xlsx[2][1].records) = N_RESPONSES

TenureAdjustment(tenure, q) ==
  IF tenure = "0-1y" /\ (q = "Q01_Strategy" \/ q = "Q10_CareerPath") THEN -2 ELSE 0

ManagerAdjustment(manager, q) ==
  IF manager = "Yes" /\ (q = "Q01_Strategy" \/ q = "Q02_Leadership_Comms") THEN 2 ELSE 0

DepartmentAdjustment(dept, q) ==
  IF dept \in DOMAIN DEPT_ADJ /\ q \in DOMAIN DEPT_ADJ[dept] THEN DEPT_ADJ[dept][q] ELSE 0

\* the three adjustments of a row for question q, in tenths
Adjustments(row, q) ==
  << DepartmentAdjustment(DictGet(row, "Department"), q),
     TenureAdjustment(DictGet(row, "Tenure"), q),
     ManagerAdjustment(DictGet(row, "Manager"), q) >>

\* the orders in which three adjustments can be added
Orders == {o \in [1..3 -> 1..3] : \A a, b \in 1..3 : a # b => o[a] # o[b]}

\* the float the base mean becomes when the adjustments are added to it in order o
SumInOrder(base, adj, o) ==
  f64_add(f64_add(f64_add(f64_literal(base), f64_literal(adj[o[1]])),
                  f64_literal(adj[o[2]])),
          f64_literal(adj[o[3]]))

\* the mean of question q in the local values loc of a row, as the claim gives it
MeanAsClaimed(row, loc, q) ==
  LET adj == Adjustments(row, q)
      m == loc.mean[q]
  IN  /\ \A o \in Orders : m = SumInOrder(BASE_MEAN_BY_Q[q], adj, o)
      /\ NearestTenth(m) = BASE_MEAN_BY_Q[q] + adj[1] + adj[2] + adj[3]
      /\ DictGet(row, q)
           = LIKERT_TEXT[clip(rint(NearestTenth(m) * 100 + 85 * loc.z[q], 1000), 1, 5)]

\* C5: for every respondent and question, the mean passed to likert_from_mean is
\* the float sum of the base mean and the department, tenure and manager
\* adjustments of the respondent's exported Department, Tenure and Manager (an
\* adjustment that does not apply adds 0), the same float in whatever order the
\* adjustments are added to the base; it is the decimal sum of the four to within
\* float rounding, and the exported label is the one that mean and the respondent's
\* sample give.  Stated of every step: the rows a run holds stay as they are, and a
\* row the step appends has these means.
C5_TargetMean ==
  [][\A r \in Runs :
       /\ \A k \in Appended(r) : k <= Len(rows'[r]) /\ rows'[r][k] = rows[r][k]
       /\ Len(rows'[r]) > Len(rows[r]) =>
            \A q \in QCodeSet :
              MeanAsClaimed(rows'[r][Len(rows'[r])], locals'[r][Len(locals'[r])], q)]_vars

\* C5 witness: a respondent on whose Q01_Strategy mean all three adjustments act
\* (Sales or Finance, tenure 0-1y, manager: 3.4 + 0.1 - 0.2 + 0.2 = 3.5) and whose
\* Q10_CareerPath mean, 2.8 - 0.2, is a float that is not the float of 2.6.
C5_Witness ==
  \E r \in Runs : \E k \in Appended(r) :
    /\ DictGet(rows[r][k], "Department") \in {"Sales", "Finance"}
    /\ DictGet(rows[r][k], "Tenure") = "0-1y"
    /\ DictGet(rows[r][k], "Manager") = "Yes"
    /\ locals[r][k].mean["Q01_Strategy"] = f64_literal(35)
    /\ NearestTenth(locals[r][k].mean["Q10_CareerPath"]) = 26
    /\ locals[r][k].mean["Q10_CareerPath"] # f64_literal(26)

ClaimedShift(dept) ==
  CASE dept = "Engineering" -> 3
    [] dept = "Sales" -> 2
    [] dept = "Customer Support" -> -6
    [] dept = "Operations" -> -3
    [] dept = "Finance" -> 0
    [] dept = "HR / People" -> 2
    [] OTHER -> 0

\* the eNPS mean, in tenths, for the exported Q12_OverallEngagement label and
\* Department of a row
ClaimedEnpsMean(row) ==
  (LikertValue(DictGet(row, "Q12_OverallEngagement")) - 1) * 25
  + ClaimedShift(DictGet(row, "Department")) + 40

\* the mean and the sample of the eNPS draw give the exported eNPS
EnpsFollowsMean(r, k) ==
  /\ locals[r][k].enps_loc = ClaimedEnpsMean(rows[r][k])
  /\ DictGet(rows[r][k], "eNPS_0_10")
       = clip(rint(ClaimedEnpsMean(rows[r][k]) * 100 + 190 * locals[r][k].enps_z, 1000), 0, 10)
  /\ DictGet(rows[r][k], "eNPS_0_10") <= 10

TopEngineering(row) ==
  /\ DictGet(row, "Q12_OverallEngagement") = "Strongly agree"
  /\ DictGet(row, "Department") = "Engineering"

\* C6 as stated: the eNPS mean is (s - 1) * 2.5 + shift + 4.0 for the respondent's
\* exported Q12_OverallEngagement score s and department shift, which for s = 5 in
\* Engineering is 13.3, and the eNPS never exceeds 10.
C6_EnpsMean_AsStated ==
  \A r \in Runs : \A k \in Appended(r) :
    /\ EnpsFollowsMean(r, k)
    /\ TopEngineering(rows[r][k]) => locals[r][k].enps_loc = 133

\* C6 amended: the eNPS mean is (s - 1) * 2.5 + shift + 4.0 for the respondent's
\* exported Q12_OverallEngagement score s and department shift, which for s = 5 in
\* Engineering is 14.3, and the eNPS never exceeds 10.
C6_EnpsMean ==
  \A r \in Runs : \A k \in Appended(r) :
    /\ EnpsFollowsMean(r, k)
    /\ TopEngineering(rows[r][k]) => locals[r][k].enps_loc = 143

\* C6 witness: an Engineering respondent with Q12_OverallEngagement 5 whose eNPS
\* sample rounds above 10 and is exported as 10, and a Customer Support respondent
\* with a lower score.
C6_Witness ==
  /\ \E r \in Runs : \E k \in Appended(r) :
       /\ TopEngineering(rows[r][k])
       /\ 143 * 100 + 190 * locals[r][k].enps_z > 10500
       /\ DictGet(rows[r][k], "eNPS_0_10") = 10
  /\ \E r \in Runs : \E k \in Appended(r) :
       /\ DictGet(rows[r][k], "Department") = "Customer Support"
       /\ DictGet(rows[r][k], "Q12_OverallEngagement") = "Disagree"
       /\ locals[r][k].enps_loc = 59

\* the gate draw u, held as u * 256, is below the probability p given in hundredths
Fires(draw, p) == draw * 100 < p * 256

\* C7: each comment is the empty string exactly when its gate draw is not below
\* the gate's probability (0.78 for Open_WhatsWorking, 0.70 for Open_ImproveFirst);
\* when the gate fires the comment is a non-empty member of its template list, also
\* when the workload override, tried only for Customer Support and Operations,
\* supplies it.
C7_CommentGates ==
  \A r \in Runs : \A k \in Appended(r) :
    LET row == rows[r][k]
        working == DictGet(row, "Open_WhatsWorking")
        improve == DictGet(row, "Open_ImproveFirst")
    IN  /\ (working = "") <=> ~Fires(locals[r][k].gate_working, 78)
        /\ (improve = "") <=> ~Fires(locals[r][k].gate_improve, 70)
        /\ Fires(locals[r][k].gate_working, 78) =>
             working # "" /\ working \in Range(WORKING_WELL_TEMPLATES)
        /\ Fires(locals[r][k].gate_improve, 70) =>
             improve # "" /\ improve \in Range(IMPROVE_FIRST_TEMPLATES)
        /\ locals[r][k].asks_workload =>
             DictGet(row, "Department") \in {"Customer Support", "Operations"}
        /\ locals[r][k].override =>
             /\ locals[r][k].asks_workload
             /\ improve # ""
             /\ improve \in Range(IMPROVE_FIRST_TEMPLATES)

\* C7 witness: an Operations or Customer Support respondent whose improve gate
\* fired and whose comment the workload override supplied, with the other gate
\* closed and its comment empty.
C7_Witness ==
  \E r \in Runs : \E k \in Appended(r) :
    /\ locals[r][k].override
    /\ DictGet(rows[r][k], "Open_ImproveFirst") = "Reduce workload and improve staffing/planning."
    /\ ~Fires(locals[r][k].gate_working, 78)
    /\ DictGet(rows[r][k], "Open_WhatsWorking") = ""

\* the most minutes a respondent of index idx can get: the largest exponential
\* sample, times idx, over 8
LatestMinutes(idx) == (EXP_SCALE * XMax * idx) \div 800

\* C8: every timestamp lies in a bounded window after START_DATE: the minutes
\* added for the respondent of index idx, with exponential sample e, are a whole
\* number m >= 0 less than one minute away from e * idx / 8, so none is before
\* START_DATE and none is later than the largest sample allows for the last
\* respondent; the exported SubmissionTime is START_DATE plus m minutes.
C8_TimestampWindow ==
  \A r \in Runs : \A k \in Appended(r) :
    LET m == locals[r][k].minutes
        product == locals[r][k].e * k
        stamp == DictGet(rows[r][k], "SubmissionTime")
    IN  /\ locals[r][k].e >= 0
        /\ m >= 0
        /\ 800 * m - product < 800
        /\ product - 800 * m < 800
        /\ m <= LatestMinutes(N_RESPONSES)
        /\ Len(stamp) = 16
        /\ SubSeq(stamp, 1, 8) = SubSeq(strftime(START_DATE), 1, 8)
        /\ StampMinutes(stamp) = m
        /\ StampMinutes(stamp) >= 0
        /\ StampMinutes(stamp) <= LatestMinutes(N_RESPONSES)

\* C8 witness: a table whose timestamps are not sorted by index: a later
\* respondent was stamped earlier than one before it, and both after START_DATE.
C8_Witness ==
  \E r \in Runs : \E j, k \in Appended(r) :
    /\ j < k
    /\ StampMinutes(DictGet(rows[r][k], "SubmissionTime")) > 0
    /\ StampMinutes(DictGet(rows[r][j], "SubmissionTime"))
         > StampMinutes(DictGet(rows[r][k], "SubmissionTime"))

\* C9 as stated: the minutes added are e * idx / 8 rounded to the nearest whole
\* minute (2.7 gives 3).
C9_RoundedMinutes_AsStated ==
  \A r \in Runs : \A k \in Appended(r) :
    LET m == locals[r][k].minutes
        product == locals[r][k].e * k
    IN  /\ 2 * (800 * m - product) <= 800
        /\ 2 * (product - 800 * m) <= 800
        /\ product = 2160 => m = 3

\* C9 amended: the minutes added are e * idx / 8 cut down to a whole minute, the
\* fraction dropped (2.7 gives 2), and the exported SubmissionTime is START_DATE
\* plus that many minutes.
C9_TruncatedMinutes ==
  \A r \in Runs : \A k \in Appended(r) :
    LET m == locals[r][k].minutes
        product == locals[r][k].e * k
    IN  /\ 800 * m <= product
        /\ product < 800 * (m + 1)
        /\ product = 2160 => m = 2
        /\ DictGet(rows[r][k], "SubmissionTime") = strftime(timedelta_add(START_DATE, m))

\* C9 witness: a respondent whose e * idx / 8 is exactly 2.7 and who is stamped
\* START_DATE plus 2 minutes.
C9_Witness ==
  \E r \in Runs : \E k \in Appended(r) :
    /\ locals[r][k].e * k = 2160
    /\ locals[r][k].minutes = 2
    /\ StampMinutes(DictGet(rows[r][k], "SubmissionTime")) = 2

\* the records a table of rows exports: each row's values in column order
TableRecords(rs) == [k \in 1..Len(rs) |-> Values(rs[k])]

\* C10: export follows generation and fails hard.  No write starts before all
\* N_RESPONSES rows are appended; each file is written at most once, from the rows
\* as generated; a failed write ends the run, so after a failed to_csv no workbook
\* is written, after any failed write nothing is printed, and a run that ends
\* normally has written both files and printed once.
C10_ExportFailsHard ==
  \A r \in Runs :
    /\ (pc[r] \in {"to_csv", "to_excel", "print", "done"}
        \/ csv[r] # << >> \/ xlsx[r] # << >> \/ stdout[r] # << >>
        \/ failed[r] \cap {"to_csv", "to_excel"} # {})
         => /\ Len(rows[r]) = N_RESPONSES
            /\ Len(df[r]) = 1
            /\ df[r][1].data = TableRecords(rows[r])
    /\ Len(csv[r]) <= 1
    /\ Len(xlsx[r]) <= 1
    /\ Len(stdout[r]) <= 1
    /\ csv[r] # << >> =>
         csv[r][1].header = ExpectedColumns /\ csv[r][1].records = TableRecords(rows[r])
    /\ xlsx[r] # << >> =>
         /\ xlsx[r][1].header = ExpectedColumns
         /\ xlsx[r][1].records = TableRecords(rows[r])
         /\ csv[r] # << >>
         /\ xlsx[r][1].records = csv[r][1].records
    /\ failed[r] # {} => pc[r] = "aborted" /\ stdout[r] = << >>
    /\ pc[r] = "aborted" => failed[r] # {}
    /\ "to_csv" \in failed[r] => csv[r] = << >> /\ xlsx[r] = << >>
    /\ "to_excel" \in failed[r] => xlsx[r] = << >>
    /\ stdout[r] # << >> => Len(csv[r]) = 1 /\ Len(xlsx[r]) = 1 /\ pc[r] = "done"
    /\ pc[r] = "done" =>
         /\ Len(csv[r]) = 1
         /\ Len(xlsx[r]) = 1
         /\ Len(stdout[r]) = 1
         /\ stdout[r][1].rows = N_RESPONSES

\* C10 witness: one run ended by a failed to_csv with nothing written or printed,
\* and the next by a failed to_excel, its CSV written and nothing printed.
C10_Witness ==
  /\ pc[1] = "aborted"
  /\ failed[1] = {"to_csv"}
  /\ csv[1] = << >>
  /\ xlsx[1] = << >>
  /\ stdout[1] = << >>
  /\ pc[2] = "aborted"
  /\ failed[2] = {"to_excel"}
  /\ Len(csv[2]) = 1
  /\ xlsx[2] = << >>
  /\ stdout[2] = << >>

====
